---- MODULE Spec2Model ----
(***************************************************************************)
(* Model of thirtyfour's ActionChain (src/thirtyfour/src/action_chain.rs). *)
(* A chain owns a keyboard ActionSource and a pointer ActionSource and a   *)
(* shared session handle.  Chain methods consume the chain and return it   *)
(* with actions appended to both sources; perform() and reset_actions()    *)
(* send one command through the handle and await its outcome.              *)
(***************************************************************************)
EXTENDS Integers, Sequences, FiniteSets, TLC

\* ---------------------------------------------------------------- bounds
\* Spec: a chain call may start only while both timelines are shorter than
\* MaxLen, and the transport log holds at most MaxSent commands.
MaxLen == 2
MaxSent == 1
\* SpecTerminal: the same limits, shallow in chain calls and deeper in
\* terminal operations.
MaxLenTerminal == 1
MaxSentTerminal == 2
\* SpecShared: the same limits for two chains that share one session handle.
MaxLenShared == 1
MaxSentShared == 2

\* ---------------------------------------------------------------- inputs
Chars == {"a", "b"}
Texts == {<<>>, <<"a", "b">>}
ElementIds == {"e1", "e2"}
WebElements == {[element_id |-> id] : id \in ElementIds}
\* (x, y) arguments of move_to / move_by_offset / *_with_offset.
Coords == {<<1, 2>>}
\* Option<Duration> arguments of new_with_delay, in milliseconds.
None == <<>>
Some(d) == <<d>>
KeyDelayArgs == {None, Some(10)}
PointerDelayArgs == {None, Some(100)}
\* Outcomes of SessionHandle::cmd.
TransportErrors == {"WebDriverTimeout", "StaleElementReference"}
TransportOutcomes == {"Ok"} \cup TransportErrors

\* ------------------------------------------------- common::action (spec)
DefaultKeyDelay == 0
DefaultPointerDelay == 250
MOUSE_BUTTON_LEFT == 0
MOUSE_BUTTON_RIGHT == 2

unwrap_or(opt, default) == IF opt = None THEN default ELSE opt[1]

KeyPause == [type |-> "pause"]
KeyDown(c) == [type |-> "keyDown", value |-> c]
KeyUp(c) == [type |-> "keyUp", value |-> c]
PointerPause == [type |-> "pause"]
PointerDown(button) == [type |-> "pointerDown", button |-> button]
PointerUp(button) == [type |-> "pointerUp", button |-> button]
PointerMoveTo(x, y, d) ==
    [type |-> "pointerMove", origin |-> "viewport", x |-> x, y |-> y, duration |-> d]
PointerMoveBy(x, y, d) ==
    [type |-> "pointerMove", origin |-> "pointer", x |-> x, y |-> y, duration |-> d]
PointerMoveToElement(id, x, y, d) ==
    [type |-> "pointerMove", origin |-> "element", element |-> id,
     x |-> x, y |-> y, duration |-> d]

push(src, a) == [src EXCEPT !.actions = Append(@, a)]

KeySource_new(name, delay) ==
    [id |-> name, type |-> "key",
     duration |-> unwrap_or(delay, DefaultKeyDelay), actions |-> <<>>]
KeySource_pause(src) == push(src, KeyPause)
KeySource_key_down(src, c) == push(src, KeyDown(c))
KeySource_key_up(src, c) == push(src, KeyUp(c))

PointerSource_new(name, ptype, delay) ==
    [id |-> name, type |-> "pointer", parameters |-> [pointerType |-> ptype],
     duration |-> unwrap_or(delay, DefaultPointerDelay), actions |-> <<>>]
PointerSource_pause(src) == push(src, PointerPause)
PointerSource_click_and_hold(src) == push(src, PointerDown(MOUSE_BUTTON_LEFT))
PointerSource_release(src) == push(src, PointerUp(MOUSE_BUTTON_LEFT))
PointerSource_click(src) ==
    PointerSource_release(PointerSource_click_and_hold(src))
PointerSource_context_click(src) ==
    push(push(src, PointerDown(MOUSE_BUTTON_RIGHT)), PointerUp(MOUSE_BUTTON_RIGHT))
PointerSource_double_click(src) == PointerSource_click(PointerSource_click(src))
PointerSource_move_to(src, x, y) == push(src, PointerMoveTo(x, y, src.duration))
PointerSource_move_by(src, x, y) == push(src, PointerMoveBy(x, y, src.duration))
PointerSource_move_to_element(src, id, x, y) ==
    push(src, PointerMoveToElement(id, x, y, src.duration))
PointerSource_move_to_element_center(src, id) ==
    PointerSource_move_to_element(src, id, 0, 0)

\* --------------------------------------------------- common::keys (spec)
TypingData_from(text) == [data |-> text]
as_vec(typing) == typing.data

\* ------------------------------------------ ActionChain: pure chain methods
new(handle) ==
    [handle |-> handle,
     key_actions |-> KeySource_new("key", None),
     pointer_actions |-> PointerSource_new("pointer", "mouse", None)]


\* new_with_delay() handing each delay to the other device.
new_with_delay_swapped(handle, key_delay, pointer_delay) ==
    [handle |-> handle,
     key_actions |-> KeySource_new("key", pointer_delay),
     pointer_actions |-> PointerSource_new("pointer", "mouse", key_delay)]

new_with_delay(handle, key_delay, pointer_delay) ==
    [handle |-> handle,
     key_actions |-> KeySource_new("key", key_delay),
     pointer_actions |-> PointerSource_new("pointer", "mouse", pointer_delay)]


\* click() padding the keyboard with one pause for its two pointer actions.
click_one_pause(self) ==
    [self EXCEPT !.pointer_actions = PointerSource_click(@),
                 !.key_actions = KeySource_pause(@)]

click(self) ==
    [self EXCEPT !.pointer_actions = PointerSource_click(@),
                 !.key_actions = KeySource_pause(KeySource_pause(@))]

click_and_hold(self) ==
    [self EXCEPT !.pointer_actions = PointerSource_click_and_hold(@),
                 !.key_actions = KeySource_pause(@)]

\* context_click() clicking the primary button.
context_click_primary(self) ==
    [self EXCEPT !.pointer_actions = PointerSource_click(@),
                 !.key_actions = KeySource_pause(KeySource_pause(@))]

context_click(self) ==
    [self EXCEPT !.pointer_actions = PointerSource_context_click(@),
                 !.key_actions = KeySource_pause(KeySource_pause(@))]

RECURSIVE pause_times(_, _)
pause_times(src, n) ==
    IF n = 0 THEN src ELSE pause_times(KeySource_pause(src), n - 1)


\* double_click() padding the keyboard as a single click does.
double_click_pads_two(self) ==
    [self EXCEPT !.pointer_actions = PointerSource_double_click(@),
                 !.key_actions = pause_times(@, 2)]

double_click(self) ==
    [self EXCEPT !.pointer_actions = PointerSource_double_click(@),
                 !.key_actions = pause_times(@, 4)]


\* key_down() without the pause on the pointer source.
key_down_no_pause(self, value) ==
    [self EXCEPT !.key_actions = KeySource_key_down(@, value)]

key_down(self, value) ==
    [self EXCEPT !.key_actions = KeySource_key_down(@, value),
                 !.pointer_actions = PointerSource_pause(@)]

\* key_up() releasing the pointer button where it should pause the pointer.
key_up_releasing_pointer(self, value) ==
    [self EXCEPT !.key_actions = KeySource_key_up(@, value),
                 !.pointer_actions = PointerSource_release(@)]

\* key_up() pushing the press of the key again.
key_up_pushing_down(self, value) ==
    [self EXCEPT !.key_actions = KeySource_key_down(@, value),
                 !.pointer_actions = PointerSource_pause(@)]

key_up(self, value) ==
    [self EXCEPT !.key_actions = KeySource_key_up(@, value),
                 !.pointer_actions = PointerSource_pause(@)]

move_to(self, x, y) ==
    [self EXCEPT !.pointer_actions = PointerSource_move_to(@, x, y),
                 !.key_actions = KeySource_pause(@)]

\* move_by_offset() moving to absolute coordinates.
move_by_offset_absolute(self, x_offset, y_offset) ==
    [self EXCEPT !.pointer_actions = PointerSource_move_to(@, x_offset, y_offset),
                 !.key_actions = KeySource_pause(@)]

move_by_offset(self, x_offset, y_offset) ==
    [self EXCEPT !.pointer_actions = PointerSource_move_by(@, x_offset, y_offset),
                 !.key_actions = KeySource_pause(@)]

move_to_element_center(self, element) ==
    [self EXCEPT
        !.pointer_actions = PointerSource_move_to_element_center(@, element.element_id),
        !.key_actions = KeySource_pause(@)]

move_to_element_with_offset(self, element, x_offset, y_offset) ==
    [self EXCEPT
        !.pointer_actions =
            PointerSource_move_to_element(@, element.element_id, x_offset, y_offset),
        !.key_actions = KeySource_pause(@)]

\* release() turning the latest pointer action into the release where it
\* should append one.
release_overwriting(self) ==
    [self EXCEPT
        !.pointer_actions.actions =
            IF @ = <<>> THEN <<PointerUp(MOUSE_BUTTON_LEFT)>>
            ELSE [@ EXCEPT ![Len(@)] = PointerUp(MOUSE_BUTTON_LEFT)],
        !.key_actions.actions = IF @ = <<>> THEN <<KeyPause>> ELSE @]

release(self) ==
    [self EXCEPT !.pointer_actions = PointerSource_release(@),
                 !.key_actions = KeySource_pause(@)]


\* click_element() clicking where the pointer already is.
click_element_no_move(self, element) == click(self)

click_element(self, element) == click(move_to_element_center(self, element))

click_and_hold_element(self, element) ==
    click_and_hold(move_to_element_center(self, element))

context_click_element(self, element) ==
    context_click(move_to_element_center(self, element))

double_click_element(self, element) ==
    double_click(move_to_element_center(self, element))

release_on_element(self, element) == release(move_to_element_center(self, element))


\* drag_and_drop_element() with source and target exchanged.
drag_and_drop_element_swapped(self, source, target) ==
    release_on_element(click_and_hold_element(self, target), source)

drag_and_drop_element(self, source, target) ==
    release_on_element(click_and_hold_element(self, source), target)

\* drag_and_drop_by_offset() dropping at the offset, as drag_and_drop_element()
\* drops on its target.
drag_and_drop_by_offset_releasing(self, x_offset, y_offset) ==
    release(move_by_offset(click_and_hold(self), x_offset, y_offset))

drag_and_drop_by_offset(self, x_offset, y_offset) ==
    move_by_offset(click_and_hold(self), x_offset, y_offset)

drag_and_drop_element_by_offset(self, element, x_offset, y_offset) ==
    move_by_offset(click_and_hold_element(self, element), x_offset, y_offset)

\* key_down_on_element() without the click on the element.
key_down_on_element_no_click(self, element, value) == key_down(self, value)

key_down_on_element(self, element, value) ==
    key_down(click_element(self, element), value)

key_up_on_element(self, element, value) ==
    key_up(click_element(self, element), value)

RECURSIVE send_keys_loop(_, _)
send_keys_loop(self, cs) ==
    IF cs = <<>> THEN self
    ELSE send_keys_loop(key_up(key_down(self, Head(cs)), Head(cs)), Tail(cs))


\* send_keys() pressing every key before releasing any.
send_keys_chord(self, text) ==
    [self EXCEPT
        !.key_actions.actions =
            @ \o [i \in 1..Len(text) |-> KeyDown(text[i])]
              \o [i \in 1..Len(text) |-> KeyUp(text[i])],
        !.pointer_actions.actions =
            @ \o [i \in 1..(2 * Len(text)) |-> PointerPause]]

send_keys(self, text) == send_keys_loop(self, as_vec(TypingData_from(text)))

send_keys_to_element(self, element, text) ==
    send_keys(click_element(self, element), text)

\* The JSON array with the pointer source first.
Actions_from_pointer_first(self) == <<self.pointer_actions, self.key_actions>>

\* The JSON array [self.key_actions, self.pointer_actions] built by perform().
Actions_from(self) == <<self.key_actions, self.pointer_actions>>
PerformActions(actions) == [cmd |-> "PerformActions", actions |-> actions]
ReleaseActions == [cmd |-> "ReleaseActions"]

\* ------------------------------------------------------------------ state
VARIABLES
    chain,  \* chain[b]: the ActionChain value owned by calling sequence b
    pc,     \* pc[b]: "ready", or the terminal operation awaiting the transport
    sent,   \* commands received by the shared session transport, in order
    ctor,   \* ctor[b]: the constructor call that made chain[b]
    last,   \* the latest call or return at the ActionChain interface
    before, \* before[b]: the chain value b's latest call received
    sent_before, \* sent_before[b]: the transport log when b's latest call was made
    invoked,     \* invoked[b]: how often b called perform / reset_actions
    limit   \* the exploration limits of this behaviour

vars == <<chain, pc, sent, ctor, last, before, sent_before, invoked, limit>>

Handle == "session"

NoCall ==
    [op |-> "new", b |-> 0, element |-> "", target |-> "", x |-> 0, y |-> 0,
     value |-> "", text |-> <<>>, result |-> "none", transport |-> "none"]
Call(op, b) == [NoCall EXCEPT !.op = op, !.b = b]
CallE(op, b, element) == [Call(op, b) EXCEPT !.element = element.element_id]
CallXY(op, b, xy) == [Call(op, b) EXCEPT !.x = xy[1], !.y = xy[2]]
CallEXY(op, b, element, xy) ==
    [CallE(op, b, element) EXCEPT !.x = xy[1], !.y = xy[2]]
CallV(op, b, value) == [Call(op, b) EXCEPT !.value = value]
CallEV(op, b, element, value) == [CallE(op, b, element) EXCEPT !.value = value]
CallT(op, b, text) == [Call(op, b) EXCEPT !.text = text]
CallET(op, b, element, text) == [CallE(op, b, element) EXCEPT !.text = text]
Return(op, b, result) == [Call(op, b) EXCEPT !.result = result]
\* A return together with the outcome the transport gave to cmd().
ReturnOf(op, b, result, outcome) ==
    [Return(op, b, result) EXCEPT !.transport = outcome]

\* Constructor calls: ActionChain::new(handle) and
\* ActionChain::new_with_delay(handle, key_delay, pointer_delay).
CtorNew == [fn |-> "new", key_delay |-> None, pointer_delay |-> None]
CtorNewWithDelay(kd, pd) ==
    [fn |-> "new_with_delay", key_delay |-> kd, pointer_delay |-> pd]
AllCtors ==
    {CtorNew} \cup {CtorNewWithDelay(kd, pd) : kd \in KeyDelayArgs, pd \in PointerDelayArgs}
SomeCtors == {CtorNew, CtorNewWithDelay(Some(10), Some(100))}

construct(c) ==
    IF c.fn = "new" THEN new(Handle)
    ELSE new_with_delay(Handle, c.key_delay, c.pointer_delay)

InitFor(builders, ctors, lim) ==
    /\ ctor \in [builders -> ctors]
    /\ chain = [b \in builders |-> construct(ctor[b])]
    /\ pc = [b \in builders |-> "ready"]
    /\ sent = <<>>
    /\ last = NoCall
    /\ before = chain
    /\ sent_before = [b \in builders |-> <<>>]
    /\ invoked = [b \in builders |-> [perform |-> 0, reset_actions |-> 0]]
    /\ limit = lim

Init == InitFor({1}, SomeCtors, [len |-> MaxLen, sent |-> MaxSent])

InitTerminal ==
    InitFor({1}, AllCtors, [len |-> MaxLenTerminal, sent |-> MaxSentTerminal])

\* Two chains built on clones of one handle, one by new() and one by
\* new_with_delay().
InitShared ==
    /\ InitFor({1, 2}, SomeCtors, [len |-> MaxLenShared, sent |-> MaxSentShared])
    /\ ctor[1] = CtorNew
    /\ ctor[2] # CtorNew

Builders == DOMAIN chain

\* A chain method is called on a chain that is not borrowed by a pending
\* perform()/reset_actions() future.
CanChain(b) ==
    /\ pc[b] = "ready"
    /\ Len(chain[b].key_actions.actions) < limit.len
    /\ Len(chain[b].pointer_actions.actions) < limit.len

\* A chain method writing to sources that all chains of the session share.
Chained_aliasing(b, self, call) ==
    /\ CanChain(b)
    /\ chain' = [c \in Builders |-> self]
    /\ last' = call
    /\ before' = [before EXCEPT ![b] = chain[b]]
    /\ sent_before' = [sent_before EXCEPT ![b] = sent]
    /\ UNCHANGED <<pc, sent, ctor, invoked, limit>>

Chained(b, self, call) ==
    /\ CanChain(b)
    /\ chain' = [chain EXCEPT ![b] = self]
    /\ last' = call
    /\ before' = [before EXCEPT ![b] = chain[b]]
    /\ sent_before' = [sent_before EXCEPT ![b] = sent]
    /\ UNCHANGED <<pc, sent, ctor, invoked, limit>>


\* click() sending its actions at once instead of waiting for perform().
Click_eager(b) ==
    /\ CanChain(b)
    /\ Len(sent) < limit.sent
    /\ chain' = [chain EXCEPT ![b] = click(chain[b])]
    /\ sent' = Append(sent, [by |-> b, command |-> PerformActions(Actions_from(click(chain[b])))])
    /\ last' = Call("click", b)
    /\ before' = [before EXCEPT ![b] = chain[b]]
    /\ sent_before' = [sent_before EXCEPT ![b] = sent]
    /\ UNCHANGED <<pc, ctor, invoked, limit>>

Click(b) == Chained(b, click(chain[b]), Call("click", b))

ClickAndHold(b) == Chained(b, click_and_hold(chain[b]), Call("click_and_hold", b))

ContextClick(b) == Chained(b, context_click(chain[b]), Call("context_click", b))

DoubleClick(b) == Chained(b, double_click(chain[b]), Call("double_click", b))

Release(b) == Chained(b, release(chain[b]), Call("release", b))

KeyDownCall(b) ==
    \E c \in Chars : Chained(b, key_down(chain[b], c), CallV("key_down", b, c))

KeyUpCall(b) ==
    \E c \in Chars : Chained(b, key_up(chain[b], c), CallV("key_up", b, c))

MoveTo(b) ==
    \E xy \in Coords :
        Chained(b, move_to(chain[b], xy[1], xy[2]), CallXY("move_to", b, xy))

MoveByOffset(b) ==
    \E xy \in Coords :
        Chained(b, move_by_offset(chain[b], xy[1], xy[2]),
                CallXY("move_by_offset", b, xy))

MoveToElementCenter(b) ==
    \E e \in WebElements :
        Chained(b, move_to_element_center(chain[b], e),
                CallE("move_to_element_center", b, e))

MoveToElementWithOffset(b) ==
    \E e \in WebElements, xy \in Coords :
        Chained(b, move_to_element_with_offset(chain[b], e, xy[1], xy[2]),
                CallEXY("move_to_element_with_offset", b, e, xy))

SendKeys(b) ==
    \E t \in Texts : Chained(b, send_keys(chain[b], t), CallT("send_keys", b, t))

ClickElement(b) ==
    \E e \in WebElements :
        Chained(b, click_element(chain[b], e), CallE("click_element", b, e))

ClickAndHoldElement(b) ==
    \E e \in WebElements :
        Chained(b, click_and_hold_element(chain[b], e),
                CallE("click_and_hold_element", b, e))

ContextClickElement(b) ==
    \E e \in WebElements :
        Chained(b, context_click_element(chain[b], e),
                CallE("context_click_element", b, e))

DoubleClickElement(b) ==
    \E e \in WebElements :
        Chained(b, double_click_element(chain[b], e),
                CallE("double_click_element", b, e))

ReleaseOnElement(b) ==
    \E e \in WebElements :
        Chained(b, release_on_element(chain[b], e),
                CallE("release_on_element", b, e))

DragAndDropElement(b) ==
    \E s \in WebElements, t \in WebElements :
        Chained(b, drag_and_drop_element(chain[b], s, t),
                [CallE("drag_and_drop_element", b, s) EXCEPT !.target = t.element_id])

DragAndDropByOffset(b) ==
    \E xy \in Coords :
        Chained(b, drag_and_drop_by_offset(chain[b], xy[1], xy[2]),
                CallXY("drag_and_drop_by_offset", b, xy))

DragAndDropElementByOffset(b) ==
    \E e \in WebElements, xy \in Coords :
        Chained(b, drag_and_drop_element_by_offset(chain[b], e, xy[1], xy[2]),
                CallEXY("drag_and_drop_element_by_offset", b, e, xy))

KeyDownOnElement(b) ==
    \E e \in WebElements, c \in Chars :
        Chained(b, key_down_on_element(chain[b], e, c),
                CallEV("key_down_on_element", b, e, c))

KeyUpOnElement(b) ==
    \E e \in WebElements, c \in Chars :
        Chained(b, key_up_on_element(chain[b], e, c),
                CallEV("key_up_on_element", b, e, c))

SendKeysToElement(b) ==
    \E e \in WebElements, t \in Texts :
        Chained(b, send_keys_to_element(chain[b], e, t),
                CallET("send_keys_to_element", b, e, t))

\* A call of a terminal operation hands one command to the handle and
\* suspends on its future.
Terminal(b, op, command) ==
    /\ pc[b] = "ready"
    /\ Len(sent) < limit.sent
    /\ sent' = Append(sent, [by |-> b, command |-> command])
    /\ pc' = [pc EXCEPT ![b] = op]
    /\ last' = Call(op, b)
    /\ before' = [before EXCEPT ![b] = chain[b]]
    /\ sent_before' = [sent_before EXCEPT ![b] = sent]
    /\ invoked' = [invoked EXCEPT ![b][op] = @ + 1]
    /\ UNCHANGED <<chain, ctor, limit>>

\* perform() returning Ok at once, without a command, when there is nothing
\* to perform.
Perform_skips_empty(b) ==
    IF chain[b].key_actions.actions = <<>> /\ chain[b].pointer_actions.actions = <<>>
    THEN /\ pc[b] = "ready"
         /\ last' = Return("perform", b, "Ok")
         /\ before' = [before EXCEPT ![b] = chain[b]]
         /\ sent_before' = [sent_before EXCEPT ![b] = sent]
         /\ invoked' = [invoked EXCEPT ![b]["perform"] = @ + 1]
         /\ UNCHANGED <<chain, pc, sent, ctor, limit>>
    ELSE Terminal(b, "perform", PerformActions(Actions_from(chain[b])))

\* perform() that drains the timelines it has serialized.
Perform_clearing(b) ==
    /\ pc[b] = "ready"
    /\ Len(sent) < limit.sent
    /\ sent' = Append(sent, [by |-> b, command |-> PerformActions(Actions_from(chain[b]))])
    /\ pc' = [pc EXCEPT ![b] = "perform"]
    /\ chain' = [chain EXCEPT ![b].key_actions.actions = <<>>,
                              ![b].pointer_actions.actions = <<>>]
    /\ last' = Call("perform", b)
    /\ before' = [before EXCEPT ![b] = chain[b]]
    /\ sent_before' = [sent_before EXCEPT ![b] = sent]
    /\ invoked' = [invoked EXCEPT ![b]["perform"] = @ + 1]
    /\ UNCHANGED <<ctor, limit>>

\* perform() waiting for a lock of the session that a pending perform() holds.
Perform_locked(b) ==
    /\ \A c \in Builders \ {b} : pc[c] # "perform"
    /\ Terminal(b, "perform", PerformActions(Actions_from(chain[b])))

\* perform(&self): serialize both sources into one PerformActions command.
Perform(b) == Terminal(b, "perform", PerformActions(Actions_from(chain[b])))

\* reset_actions() that also empties the local timelines.
ResetActions_clearing(b) ==
    /\ pc[b] = "ready"
    /\ Len(sent) < limit.sent
    /\ sent' = Append(sent, [by |-> b, command |-> ReleaseActions])
    /\ pc' = [pc EXCEPT ![b] = "reset_actions"]
    /\ chain' = [chain EXCEPT ![b].key_actions.actions = <<>>,
                              ![b].pointer_actions.actions = <<>>]
    /\ last' = Call("reset_actions", b)
    /\ before' = [before EXCEPT ![b] = chain[b]]
    /\ sent_before' = [sent_before EXCEPT ![b] = sent]
    /\ invoked' = [invoked EXCEPT ![b]["reset_actions"] = @ + 1]
    /\ UNCHANGED <<ctor, limit>>

\* reset_actions(&self): send ReleaseActions.
ResetActions(b) == Terminal(b, "reset_actions", ReleaseActions)

\* `cmd(..).await.ok(); Ok(())`: the outcome of the transport is dropped.
try_then_ok_swallowing(outcome) == "Ok"

\* `cmd(..).await?; Ok(())`: an Err of the transport is returned as it is,
\* any Ok value becomes Ok(()).
try_then_ok(outcome) == IF outcome \in TransportErrors THEN outcome ELSE "Ok"

Returns(b, op) ==
    /\ pc[b] = op
    /\ \E r \in TransportOutcomes : last' = ReturnOf(op, b, try_then_ok(r), r)
    /\ pc' = [pc EXCEPT ![b] = "ready"]
    /\ UNCHANGED <<chain, sent, ctor, before, sent_before, invoked, limit>>

\* perform(self): the chain is moved into perform() and gone when it returns.
PerformReturns_consuming(b) ==
    /\ pc[b] = "perform"
    /\ \E r \in TransportOutcomes : last' = ReturnOf("perform", b, try_then_ok(r), r)
    /\ pc' = [pc EXCEPT ![b] = "consumed"]
    /\ UNCHANGED <<chain, sent, ctor, before, sent_before, invoked, limit>>

\* perform() sending its command once more when the transport fails.
PerformReturns_retrying(b) ==
    /\ pc[b] = "perform"
    /\ \E r \in TransportOutcomes :
        IF r \in TransportErrors /\ sent[Len(sent)].by = b /\ Len(sent) = Len(sent_before[b]) + 1
        THEN /\ sent' = Append(sent, sent[Len(sent)])
             /\ UNCHANGED <<pc, last>>
        ELSE /\ last' = ReturnOf("perform", b, try_then_ok(r), r)
             /\ pc' = [pc EXCEPT ![b] = "ready"]
             /\ UNCHANGED sent
    /\ UNCHANGED <<chain, ctor, before, sent_before, invoked, limit>>

PerformReturns(b) == Returns(b, "perform")

ResetActionsReturns(b) == Returns(b, "reset_actions")

Next ==
    \/ \E b \in Builders : Click(b)
    \/ \E b \in Builders : ClickAndHold(b)
    \/ \E b \in Builders : ContextClick(b)
    \/ \E b \in Builders : DoubleClick(b)
    \/ \E b \in Builders : Release(b)
    \/ \E b \in Builders : KeyDownCall(b)
    \/ \E b \in Builders : KeyUpCall(b)
    \/ \E b \in Builders : MoveTo(b)
    \/ \E b \in Builders : MoveByOffset(b)
    \/ \E b \in Builders : MoveToElementCenter(b)
    \/ \E b \in Builders : MoveToElementWithOffset(b)
    \/ \E b \in Builders : SendKeys(b)
    \/ \E b \in Builders : ClickElement(b)
    \/ \E b \in Builders : ClickAndHoldElement(b)
    \/ \E b \in Builders : ContextClickElement(b)
    \/ \E b \in Builders : DoubleClickElement(b)
    \/ \E b \in Builders : ReleaseOnElement(b)
    \/ \E b \in Builders : DragAndDropElement(b)
    \/ \E b \in Builders : DragAndDropByOffset(b)
    \/ \E b \in Builders : DragAndDropElementByOffset(b)
    \/ \E b \in Builders : KeyDownOnElement(b)
    \/ \E b \in Builders : KeyUpOnElement(b)
    \/ \E b \in Builders : SendKeysToElement(b)
    \/ \E b \in Builders : Perform(b)
    \/ \E b \in Builders : ResetActions(b)
    \/ \E b \in Builders : PerformReturns(b)
    \/ \E b \in Builders : ResetActionsReturns(b)

Spec == Init /\ [][Next]_vars

SpecTerminal == InitTerminal /\ [][Next]_vars

\* Two chains on one session: a pointer call, a key call and a composite call
\* stand for the chain methods, with both terminal operations.
NextShared ==
    \/ \E b \in Builders : Click(b)
    \/ \E b \in Builders : KeyDownCall(b)
    \/ \E b \in Builders : ClickElement(b)
    \/ \E b \in Builders : Perform(b)
    \/ \E b \in Builders : ResetActions(b)
    \/ \E b \in Builders : PerformReturns(b)
    \/ \E b \in Builders : ResetActionsReturns(b)

SpecShared == InitShared /\ [][NextShared]_vars

\* ----------------------------------------------------------------- claims
K(b) == chain[b].key_actions.actions
P(b) == chain[b].pointer_actions.actions
KB(b) == before[b].key_actions.actions
PB(b) == before[b].pointer_actions.actions
Pauses(n) == [i \in 1..n |-> [type |-> "pause"]]
TerminalOps == {"perform", "reset_actions"}
Acts(seq) == \E i \in 1..Len(seq) : seq[i].type # "pause"
\* The pointer's duration: every move of the chain carries it.
PD(b) == before[b].pointer_actions.duration
MoveToCenter(b, id) ==
    [type |-> "pointerMove", origin |-> "element", element |-> id,
     x |-> 0, y |-> 0, duration |-> PD(b)]
Down(button) == [type |-> "pointerDown", button |-> button]
Up(button) == [type |-> "pointerUp", button |-> button]
PerformEntry(b, key_source, pointer_source) ==
    [by |-> b,
     command |-> [cmd |-> "PerformActions", actions |-> <<key_source, pointer_source>>]]
ReleaseEntry(b) == [by |-> b, command |-> [cmd |-> "ReleaseActions"]]

\* C1: after any sequence of chain calls the keyboard and the pointer
\* timeline of a chain have the same number of actions, and so do the two
\* timelines of every PerformActions command that perform() has serialized.
C1_EqualLength ==
    /\ \A b \in Builders : Len(K(b)) = Len(P(b))
    /\ \A i \in 1..Len(sent) :
        sent[i].command.cmd = "PerformActions" =>
            Len(sent[i].command.actions[1].actions)
                = Len(sent[i].command.actions[2].actions)

C1_Witness ==
    /\ last.op = "perform"
    /\ Len(K(1)) >= 3
    /\ Acts(K(1))
    /\ Acts(P(1))
    /\ sent[Len(sent)].command.cmd = "PerformActions"

\* C2: a chain on which perform() was never invoked has no PerformActions
\* command in the transport log, and a chain call leaves the log as it was.
C2_NoCommandBeforePerform ==
    /\ \A b \in Builders :
        invoked[b].perform = 0 =>
            \A i \in 1..Len(sent) :
                ~(sent[i].by = b /\ sent[i].command.cmd = "PerformActions")
    /\ (last.op \notin TerminalOps /\ last.b \in Builders) =>
            sent = sent_before[last.b]

C2_Witness ==
    /\ last.op = "click"
    /\ Len(KB(1)) > 0
    /\ invoked[1].perform = 0
    /\ sent = <<>>

\* C3: click() appends PointerDown(primary), PointerUp(primary) to the
\* pointer timeline and two Pauses to the keyboard timeline.
C3_Click ==
    last.op = "click" =>
        /\ P(last.b) = PB(last.b) \o <<Down(0), Up(0)>>
        /\ K(last.b) = KB(last.b) \o Pauses(2)

C3_Witness ==
    /\ last.op = "click"
    /\ Acts(KB(1))
    /\ Len(P(1)) = Len(PB(1)) + 2

\* C4: double_click() appends down, up, down, up of the primary button to
\* the pointer timeline and four Pauses to the keyboard timeline.
C4_DoubleClick ==
    last.op = "double_click" =>
        /\ P(last.b) = PB(last.b) \o <<Down(0), Up(0), Down(0), Up(0)>>
        /\ K(last.b) = KB(last.b) \o Pauses(4)

C4_Witness ==
    /\ last.op = "double_click"
    /\ Acts(KB(1))
    /\ Len(K(1)) = Len(KB(1)) + 4

\* key_down(c).key_up(c) for each character of a text of at most two
\* characters, written out call by call.
KeyDownUpEach(self, text) ==
    IF Len(text) = 0 THEN self
    ELSE IF Len(text) = 1 THEN key_up(key_down(self, text[1]), text[1])
    ELSE key_up(key_down(key_up(key_down(self, text[1]), text[1]), text[2]), text[2])

\* C5: send_keys(text) yields the timelines of key_down(c).key_up(c) for
\* each character c in order: the keyboard gains KeyDown(c), KeyUp(c) per
\* character, the pointer two Pauses per character, and the empty text
\* changes nothing.
C5_SendKeys ==
    last.op = "send_keys" =>
        /\ Len(last.text) <= 2 => chain[last.b] = KeyDownUpEach(before[last.b], last.text)
        /\ Len(K(last.b)) = Len(KB(last.b)) + 2 * Len(last.text)
        /\ SubSeq(K(last.b), 1, Len(KB(last.b))) = KB(last.b)
        /\ \A i \in 1..Len(last.text) :
            /\ K(last.b)[Len(KB(last.b)) + 2 * i - 1]
                    = [type |-> "keyDown", value |-> last.text[i]]
            /\ K(last.b)[Len(KB(last.b)) + 2 * i]
                    = [type |-> "keyUp", value |-> last.text[i]]
        /\ P(last.b) = PB(last.b) \o Pauses(2 * Len(last.text))
        /\ last.text = <<>> => chain[last.b] = before[last.b]

C5_Witness ==
    /\ last.op = "send_keys"
    /\ last.text = <<"a", "b">>
    /\ Len(KB(1)) > 0
    /\ Len(K(1)) = Len(KB(1)) + 4

\* C6: click_element(e) yields the timelines of
\* move_to_element_center(e).click(): the pointer gains the move to e's
\* center, PointerDown(primary), PointerUp(primary) and the keyboard three
\* Pauses.
C6_ClickElement ==
    last.op = "click_element" =>
        /\ chain[last.b]
            = click(move_to_element_center(before[last.b], [element_id |-> last.element]))
        /\ P(last.b) = PB(last.b) \o <<MoveToCenter(last.b, last.element), Down(0), Up(0)>>
        /\ K(last.b) = KB(last.b) \o Pauses(3)

C6_Witness ==
    /\ last.op = "click_element"
    /\ last.element = "e2"
    /\ Len(KB(1)) > 0
    /\ Len(P(1)) = Len(PB(1)) + 3

\* C7: drag_and_drop_element(src, tgt) yields the timelines of
\* click_and_hold_element(src).release_on_element(tgt): the pointer gains
\* move to src, PointerDown(primary), move to tgt, PointerUp(primary) and
\* the keyboard four Pauses.
C7_DragAndDropElement ==
    last.op = "drag_and_drop_element" =>
        /\ chain[last.b]
            = release_on_element(
                click_and_hold_element(before[last.b], [element_id |-> last.element]),
                [element_id |-> last.target])
        /\ P(last.b) = PB(last.b) \o <<MoveToCenter(last.b, last.element), Down(0),
                                       MoveToCenter(last.b, last.target), Up(0)>>
        /\ K(last.b) = KB(last.b) \o Pauses(4)

C7_Witness ==
    /\ last.op = "drag_and_drop_element"
    /\ last.element = "e1"
    /\ last.target = "e2"
    /\ Len(KB(1)) > 0
    /\ Len(P(1)) = Len(PB(1)) + 4

\* C8: reset_actions() can be called in every state of a chain, sends exactly
\* one ReleaseActions command and leaves both timelines as they were; a
\* perform() after it sends the full timelines of the chain.
C8_ResetActions ==
    /\ \A b \in Builders :
        (pc[b] = "ready" /\ Len(sent) < limit.sent) => ENABLED ResetActions(b)
    /\ last.op = "reset_actions" =>
        /\ chain[last.b] = before[last.b]
        /\ Len(sent) > Len(sent_before[last.b])
        /\ SubSeq(sent, 1, Len(sent_before[last.b]) + 1)
                = Append(sent_before[last.b], ReleaseEntry(last.b))
        /\ last.result = "none" => Len(sent) = Len(sent_before[last.b]) + 1
    /\ (last.op = "perform" /\ invoked[last.b].reset_actions > 0) =>
        sent[Len(sent_before[last.b]) + 1]
            = PerformEntry(last.b, chain[last.b].key_actions,
                           chain[last.b].pointer_actions)

C8_Witness ==
    /\ last.op = "perform"
    /\ invoked[1].reset_actions = 1
    /\ invoked[1].perform = 1
    /\ Len(K(1)) > 0
    /\ sent[1] = ReleaseEntry(1)

\* C9: perform() on a chain without actions sends one PerformActions command
\* whose payload is the key descriptor and then the pointer descriptor, each
\* with an empty action list.
C9_EmptyPerform ==
    (last.op = "perform" /\ K(last.b) = <<>> /\ P(last.b) = <<>>) =>
        /\ Len(sent) > Len(sent_before[last.b])
        /\ sent[Len(sent_before[last.b]) + 1]
            = PerformEntry(last.b,
                [id |-> "key", type |-> "key",
                 duration |-> chain[last.b].key_actions.duration, actions |-> <<>>],
                [id |-> "pointer", type |-> "pointer",
                 parameters |-> [pointerType |-> "mouse"],
                 duration |-> chain[last.b].pointer_actions.duration,
                 actions |-> <<>>])

C9_Witness ==
    /\ last.op = "perform"
    /\ K(1) = <<>>
    /\ P(1) = <<>>
    /\ Len(sent) = 1

\* C10: the key delay is 0 ms and the pointer delay 250 ms after new() and
\* after new_with_delay() with None; an explicit delay replaces the delay of
\* its own device only; no operation changes a delay afterwards.
C10_Delays ==
    \A b \in Builders :
        /\ chain[b].key_actions.duration
            = (IF ctor[b].fn = "new" \/ ctor[b].key_delay = None
               THEN 0 ELSE ctor[b].key_delay[1])
        /\ chain[b].pointer_actions.duration
            = (IF ctor[b].fn = "new" \/ ctor[b].pointer_delay = None
               THEN 250 ELSE ctor[b].pointer_delay[1])

C10_Witness ==
    /\ ctor[1] = CtorNewWithDelay(Some(10), None)
    /\ chain[1].key_actions.duration = 10
    /\ chain[1].pointer_actions.duration = 250
    /\ Acts(K(1))
    /\ Acts(P(1))

SentBy(b, cmd) ==
    {i \in 1..Len(sent) : sent[i].by = b /\ sent[i].command.cmd = cmd}
ChainOp == last.op \notin (TerminalOps \cup {"new"})

\* C11 as stated: perform() consumes the chain, so a chain that has
\* performed receives no chain call and no second perform(), and at most one
\* PerformActions command of it is ever sent.
C11_SingleUse ==
    \A b \in Builders :
        /\ invoked[b].perform <= 1
        /\ Cardinality(SentBy(b, "PerformActions")) <= 1
        /\ ~(ChainOp /\ last.b = b /\ invoked[b].perform > 0)

\* C11 amended: perform() borrows the chain.  Every perform() call sends the
\* timelines the chain has at the call, and once it has returned the chain
\* takes further chain calls and further perform() calls.
C11_Reusable ==
    /\ last.op = "perform" =>
        sent[Len(sent_before[last.b]) + 1]
            = PerformEntry(last.b, before[last.b].key_actions,
                           before[last.b].pointer_actions)
    /\ (last.op = "perform" /\ last.result # "none") => pc[last.b] = "ready"
    /\ \A b \in Builders :
        (invoked[b].perform > 0 /\ pc[b] = "ready") =>
            /\ CanChain(b) => ENABLED Click(b)
            /\ Len(sent) < limit.sent => ENABLED Perform(b)

C11_Witness ==
    /\ last.op = "perform"
    /\ invoked[1].perform = 2
    /\ Len(K(1)) > 0
    /\ sent[1].command.cmd = "PerformActions"
    /\ sent[2].command.cmd = "PerformActions"
    /\ sent[1] # sent[2]

\* C12: perform() leaves both timelines of the chain as they were before the
\* call, when it is pending, when it returned Ok and when it returned an error.
C12_PerformKeepsTimelines ==
    last.op = "perform" =>
        /\ K(last.b) = KB(last.b)
        /\ P(last.b) = PB(last.b)

C12_Witness ==
    /\ last.op = "perform"
    /\ last.result \in TransportErrors
    /\ Acts(K(1))
    /\ Acts(P(1))
    /\ K(1) = KB(1)

\* C13: perform() and reset_actions() return the outcome of the transport:
\* Ok for Ok, and for a failure the same error kind.
C13_OutcomeUnchanged ==
    (last.op \in TerminalOps /\ last.result # "none") =>
        /\ last.result = last.transport
        /\ last.result \in TransportOutcomes

C13_Witness ==
    /\ last.op = "reset_actions"
    /\ last.transport = "StaleElementReference"
    /\ last.result = "StaleElementReference"

\* C14: the transport has received one PerformActions command per perform()
\* call and one ReleaseActions command per reset_actions() call of a chain,
\* also after a call has failed.
C14_OneRoundTrip ==
    \A b \in Builders :
        /\ Cardinality(SentBy(b, "PerformActions")) = invoked[b].perform
        /\ Cardinality(SentBy(b, "ReleaseActions")) = invoked[b].reset_actions

C14_Witness ==
    /\ last.op = "perform"
    /\ last.result \in TransportErrors
    /\ invoked[1].perform = 1
    /\ invoked[1].reset_actions = 1
    /\ Len(sent) = 2

IsPause(a) == a.type = "pause"
MoveAbs(b, x, y) ==
    [type |-> "pointerMove", origin |-> "viewport", x |-> x, y |-> y, duration |-> PD(b)]
MoveRel(b, x, y) ==
    [type |-> "pointerMove", origin |-> "pointer", x |-> x, y |-> y, duration |-> PD(b)]
MoveToElem(b, id, x, y) ==
    [type |-> "pointerMove", origin |-> "element", element |-> id,
     x |-> x, y |-> y, duration |-> PD(b)]
KeyPairs(text) ==
    [i \in 1..(2 * Len(text)) |->
        IF i % 2 = 1 THEN [type |-> "keyDown", value |-> text[(i + 1) \div 2]]
        ELSE [type |-> "keyUp", value |-> text[i \div 2]]]
\* The latest call appended these actions to the two timelines of its chain.
Appended(keys, pointers) ==
    /\ K(last.b) = KB(last.b) \o keys
    /\ P(last.b) = PB(last.b) \o pointers

\* C15: at every position of the two timelines of a chain at most one device
\* acts: the keyboard action or the pointer action there is a Pause.
C15_OneDevicePerStep ==
    \A b \in Builders :
        \A i \in (DOMAIN K(b)) \cap (DOMAIN P(b)) :
            IsPause(K(b)[i]) \/ IsPause(P(b)[i])

C15_Witness ==
    /\ last.op = "key_up"
    /\ Acts(PB(1))
    /\ Len(K(1)) = Len(P(1))
    /\ ~IsPause(K(1)[Len(K(1))])
    /\ IsPause(P(1)[Len(P(1))])

\* C16: the payload of perform() is the list of the key descriptor (id "key")
\* and then the pointer descriptor (id "pointer", pointerType mouse), each
\* with the actions of its timeline in the order of the timeline.
C16_Payload ==
    last.op = "perform" =>
        LET entry == sent[Len(sent_before[last.b]) + 1] IN
            /\ entry.by = last.b
            /\ entry.command.cmd = "PerformActions"
            /\ Len(entry.command.actions) = 2
            /\ entry.command.actions[1].id = "key"
            /\ entry.command.actions[1].type = "key"
            /\ entry.command.actions[1].actions = K(last.b)
            /\ entry.command.actions[2].id = "pointer"
            /\ entry.command.actions[2].type = "pointer"
            /\ entry.command.actions[2].parameters = [pointerType |-> "mouse"]
            /\ entry.command.actions[2].actions = P(last.b)

C16_Witness ==
    /\ last.op = "perform"
    /\ last.result = "none"
    /\ Len(K(1)) >= 2
    /\ ~IsPause(K(1)[1])
    /\ ~IsPause(P(1)[2])
    /\ sent[1].command.actions[2].actions = P(1)

\* C17: key_down(c) appends KeyDown(c) to the keyboard and one Pause to the
\* pointer; key_up(c) appends KeyUp(c) and one Pause; key_up can be called
\* whether or not a key_down of that key came before.
C17_KeyDownKeyUp ==
    /\ last.op = "key_down" =>
        Appended(<<[type |-> "keyDown", value |-> last.value]>>, Pauses(1))
    /\ last.op = "key_up" =>
        Appended(<<[type |-> "keyUp", value |-> last.value]>>, Pauses(1))
    /\ \A b \in Builders : CanChain(b) => ENABLED KeyUpCall(b)

C17_Witness ==
    /\ last.op = "key_up"
    /\ last.value = "b"
    /\ Len(KB(1)) > 0
    /\ \A i \in 1..Len(KB(1)) : KB(1)[i] # [type |-> "keyDown", value |-> "b"]
    /\ K(1)[Len(K(1))] = [type |-> "keyUp", value |-> "b"]

\* C18: click_and_hold, release, move_to, move_by_offset,
\* move_to_element_center and move_to_element_with_offset each append one
\* pointer action (press of the primary button, its release, absolute move,
\* relative move, move to the element's center, move to the element with the
\* offset) and one keyboard Pause.
C18_SingleSteps ==
    /\ last.op = "click_and_hold" => Appended(Pauses(1), <<Down(0)>>)
    /\ last.op = "release" => Appended(Pauses(1), <<Up(0)>>)
    /\ last.op = "move_to" =>
        Appended(Pauses(1), <<MoveAbs(last.b, last.x, last.y)>>)
    /\ last.op = "move_by_offset" =>
        Appended(Pauses(1), <<MoveRel(last.b, last.x, last.y)>>)
    /\ last.op = "move_to_element_center" =>
        Appended(Pauses(1), <<MoveToElem(last.b, last.element, 0, 0)>>)
    /\ last.op = "move_to_element_with_offset" =>
        Appended(Pauses(1), <<MoveToElem(last.b, last.element, last.x, last.y)>>)

C18_Witness ==
    /\ last.op = "move_by_offset"
    /\ Acts(KB(1))
    /\ P(1)[Len(P(1))].origin = "pointer"
    /\ Len(P(1)) = Len(PB(1)) + 1

\* C19: context_click() appends the press and then the release of the
\* secondary button to the pointer and two Pauses to the keyboard.
C19_ContextClick ==
    last.op = "context_click" => Appended(Pauses(2), <<Down(2), Up(2)>>)

C19_Witness ==
    /\ last.op = "context_click"
    /\ Len(KB(1)) > 0
    /\ P(1)[Len(P(1))].button = 2

\* C20: key_down_on_element(e, v), key_up_on_element(e, v) and
\* send_keys_to_element(e, text) are click_element(e) followed by key_down(v),
\* key_up(v) and send_keys(text): the pointer gains the move to e's center,
\* PointerDown, PointerUp and then the Pauses of the key actions, the
\* keyboard three Pauses and then the key actions.
C20_OnElement ==
    LET b == last.b
        e == [element_id |-> last.element]
        clicks == <<MoveToCenter(b, last.element), Down(0), Up(0)>>
    IN  /\ last.op = "key_down_on_element" =>
            /\ chain[b] = key_down(click_element(before[b], e), last.value)
            /\ Appended(Pauses(3) \o <<[type |-> "keyDown", value |-> last.value]>>,
                        clicks \o Pauses(1))
        /\ last.op = "key_up_on_element" =>
            /\ chain[b] = key_up(click_element(before[b], e), last.value)
            /\ Appended(Pauses(3) \o <<[type |-> "keyUp", value |-> last.value]>>,
                        clicks \o Pauses(1))
        /\ last.op = "send_keys_to_element" =>
            /\ chain[b] = send_keys(click_element(before[b], e), last.text)
            /\ Appended(Pauses(3) \o KeyPairs(last.text),
                        clicks \o Pauses(2 * Len(last.text)))

C20_Witness ==
    /\ last.op = "send_keys_to_element"
    /\ last.text = <<"a", "b">>
    /\ last.element = "e2"
    /\ Len(KB(1)) > 0
    /\ Len(K(1)) = Len(KB(1)) + 7

\* How many more presses than releases of the button a pointer timeline holds.
Held(seq, button) ==
    Cardinality({i \in 1..Len(seq) : seq[i] = Down(button)})
        - Cardinality({i \in 1..Len(seq) : seq[i] = Up(button)})
\* The actions the latest call added behind the pointer timeline it received.
Added(b) == SubSeq(P(b), Len(PB(b)) + 1, Len(P(b)))

\* C22: drag_and_drop_by_offset(dx, dy) appends PointerDown(primary) and the
\* relative move (dx, dy) to the pointer and two Pauses to the keyboard;
\* drag_and_drop_element_by_offset(e, dx, dy) appends the move to e's center,
\* PointerDown(primary) and the relative move, and three Pauses.  Neither
\* appends a PointerUp, so the timeline holds one more press than release of
\* the primary button than before the call.
C22_DragByOffset ==
    LET b == last.b IN
        /\ last.op = "drag_and_drop_by_offset" =>
            Appended(Pauses(2), <<Down(0), MoveRel(b, last.x, last.y)>>)
        /\ last.op = "drag_and_drop_element_by_offset" =>
            Appended(Pauses(3), <<MoveToCenter(b, last.element), Down(0),
                                  MoveRel(b, last.x, last.y)>>)
        /\ last.op \in {"drag_and_drop_by_offset", "drag_and_drop_element_by_offset"} =>
            /\ \A i \in 1..Len(Added(b)) : Added(b)[i].type # "pointerUp"
            /\ Held(P(b), 0) = Held(PB(b), 0) + 1

C22_Witness ==
    /\ last.op = "drag_and_drop_element_by_offset"
    /\ last.element = "e2"
    /\ Len(PB(1)) > 0
    /\ Held(PB(1), 0) = 0
    /\ Held(P(1), 0) = 1
    /\ P(1)[Len(P(1))].origin = "pointer"

IsPrefix(s, t) == Len(s) <= Len(t) /\ SubSeq(t, 1, Len(s)) = s

\* C23: every chain call is append-only: the keyboard and the pointer
\* timeline the call received are prefixes of the timelines it returns.
C23_AppendOnly ==
    (ChainOp /\ last.b \in Builders) =>
        /\ IsPrefix(KB(last.b), K(last.b))
        /\ IsPrefix(PB(last.b), P(last.b))

C23_Witness ==
    /\ last.op = "release"
    /\ Acts(KB(1))
    /\ PB(1)[Len(PB(1))] # Up(0)
    /\ Len(P(1)) = Len(PB(1)) + 1
    /\ IsPrefix(PB(1), P(1))

\* b's perform() is pending and its command is the latest the transport got.
PendingLast(b) ==
    /\ pc[b] = "perform"
    /\ sent # <<>>
    /\ sent[Len(sent)] = PerformEntry(b, chain[b].key_actions, chain[b].pointer_actions)

\* C21: two chains on one session may have perform() pending at the same
\* time, and nothing orders them: while both are ready either one can issue
\* its perform() first, while one is pending the other can still issue its
\* own, whose command then arrives behind the pending one, and when both are
\* pending either one can return first.  So the two PerformActions commands
\* reach the transport in either order.
C21_NoOrder ==
    \A b \in Builders : \A c \in Builders \ {b} :
        /\ (pc[b] = "ready" /\ pc[c] = "ready" /\ Len(sent) < limit.sent) =>
            ENABLED (Perform(b) /\ pc'[b] = "perform" /\ pc'[c] = "ready")
        /\ (PendingLast(b) /\ pc[c] = "ready" /\ Len(sent) < limit.sent) =>
            ENABLED (/\ Perform(c)
                     /\ pc'[b] = "perform"
                     /\ pc'[c] = "perform"
                     /\ sent'[Len(sent)].by = b
                     /\ sent'[Len(sent')].by = c)
        /\ (pc[b] = "perform" /\ pc[c] = "perform") =>
            ENABLED (PerformReturns(b) /\ pc'[c] = "perform")

C21_Witness ==
    /\ pc[1] = "perform"
    /\ pc[2] = "perform"
    /\ Acts(K(1))
    /\ Acts(P(2))
    /\ sent = <<PerformEntry(2, chain[2].key_actions, chain[2].pointer_actions),
                PerformEntry(1, chain[1].key_actions, chain[1].pointer_actions)>>

\* C24: a call on one chain leaves the timelines of every other chain of the
\* session as they were, a call hands at most one command to the transport,
\* under the name of its own chain, and a PerformActions command carries the
\* two sources of the chain that issued it.
C24_Isolation ==
    [][LET b == last'.b IN
        /\ \A c \in Builders \ {b} : chain'[c] = chain[c]
        /\ sent' # sent =>
            /\ Len(sent') = Len(sent) + 1
            /\ SubSeq(sent', 1, Len(sent)) = sent
            /\ sent'[Len(sent')].by = b
            /\ sent'[Len(sent')].command.cmd = "PerformActions" =>
                sent'[Len(sent')].command.actions
                    = <<chain[b].key_actions, chain[b].pointer_actions>>]_vars

C24_Witness ==
    /\ last.op = "perform"
    /\ last.b = 2
    /\ Acts(K(1))
    /\ Acts(P(2))
    /\ K(1) # K(2)
    /\ P(1) # P(2)
    /\ sent = <<PerformEntry(1, chain[1].key_actions, chain[1].pointer_actions),
                PerformEntry(2, chain[2].key_actions, chain[2].pointer_actions)>>

====
